---- MODULE Spec2Model ----
(***************************************************************************)
(* Model of scripts/bedrock_stream.py: the import guard, argparse parsing  *)
(* of the four required options, the single converse_stream request and    *)
(* the loop that prints one JSON line per streamed event.                  *)
(*                                                                         *)
(* Text (JSON output, option values) is a sequence of chunks.  The         *)
(* characters that matter to the encoder, the newline "\n" and the double  *)
(* quote, are always chunks of their own; any other chunk is a run of      *)
(* ordinary characters.                                                    *)
(***************************************************************************)
EXTENDS Integers, Sequences, FiniteSets, TLC

\* Longest upstream event stream explored.
MaxEvents == 2

VARIABLES
    pc,          \* position of the process in the script
    boto3,       \* environment: TRUE iff `import boto3` succeeds
    argv,        \* environment: the command line
    stream,      \* environment: the events resp["stream"] would yield
    fault,       \* environment: where (if anywhere) the SDK raises
    args,        \* result of p.parse_args()
    clients,     \* boto3.client(...) calls made so far
    requests,    \* client.converse_stream(...) calls made so far
    consumed,    \* number of events taken from resp["stream"]
    event,       \* the loop variable
    stdout,      \* sys.stdout: [buf |-> unflushed text, fd |-> text delivered]
    exitStatus,  \* process exit status, -1 while running
    bootstraps   \* attempts made to create /tmp/sre-boto3-venv

vars == <<pc, boto3, argv, stream, fault, args, clients, requests,
          consumed, event, stdout, exitStatus, bootstraps>>

----------------------------------------------------------------------------
(* Values carried by events and their JSON encoding *)

StrVal(chunks) == [t |-> "str", n |-> 0, s |-> chunks]
IntVal(i) == [t |-> "int", n |-> i, s |-> <<>>]
\* a value json cannot encode natively (e.g. a datetime); s is its str()
ObjVal(repr) == [t |-> "obj", n |-> 0, s |-> repr]

\* The events the upstream stream may yield (ConverseStream output members).
Events ==
    { [key |-> "messageStart",      val |-> StrVal(<<"assistant">>)],
      [key |-> "contentBlockDelta", val |-> StrVal(<<"a", "\n", "\"">>)],
      [key |-> "metadata",          val |-> IntVal(12)],
      [key |-> "messageStop",       val |-> ObjVal(<<"2026-11-05">>)] }

NoEvent == [key |-> "", val |-> IntVal(0)]

Streams == UNION { [1..n -> Events] : n \in 0..MaxEvents }

\* json string escaping without the newline rule
EscapeChunkRaw(c) ==
    IF c = "\"" THEN "\\\"" ELSE c

\* json string escaping of one chunk (py_encode_basestring_ascii)
EscapeChunk(c) ==
    IF c = "\n" THEN "\\n"
    ELSE IF c = "\"" THEN "\\\""
    ELSE c

RECURSIVE EscapeAll(_)
EscapeAll(s) ==
    IF s = <<>> THEN <<>>
    ELSE <<EscapeChunk(Head(s))>> \o EscapeAll(Tail(s))

DumpsString(s) == <<"\"">> \o EscapeAll(s) \o <<"\"">>

\* json.dumps of a value, with default=str for what json cannot encode
DumpsValue(v) ==
    CASE v.t = "int" -> <<ToString(v.n)>>
      [] v.t = "str" -> DumpsString(v.s)
      [] v.t = "obj" -> DumpsString(v.s)

\* json.dumps(event, default=str) of a one-member dict
Dumps(e) ==
    <<"{">> \o DumpsString(<<e.key>>) \o <<": ">> \o DumpsValue(e.val) \o <<"}">>

\* the dict printed by the import guard
ErrorRecord == [key |-> "error", val |-> StrVal(<<"boto3 not available">>)]

----------------------------------------------------------------------------
(* sys.stdout *)

Flush(out) == [buf |-> <<>>, fd |-> out.fd \o out.buf]

\* print(text) leaving the line in the buffer
WriteLineNoFlush(out, text, flush) ==
    [buf |-> out.buf \o text \o <<"\n">>, fd |-> out.fd]

\* print(text, flush=flush)
WriteLine(out, text, flush) ==
    LET written == [buf |-> out.buf \o text \o <<"\n">>, fd |-> out.fd]
    IN  IF flush THEN Flush(written) ELSE written

----------------------------------------------------------------------------
(* argparse *)

Digits == {"0", "1", "2", "3", "4", "5", "6", "7", "8", "9"}

DigitVal(c) ==
    CASE c = "0" -> 0 [] c = "1" -> 1 [] c = "2" -> 2 [] c = "3" -> 3
      [] c = "4" -> 4 [] c = "5" -> 5 [] c = "6" -> 6 [] c = "7" -> 7
      [] c = "8" -> 8 [] c = "9" -> 9 [] OTHER -> 0

\* int(raw) succeeds: optional sign, then one or more digits
IsIntLiteral(raw) ==
    LET body == IF raw # <<>> /\ Head(raw) \in {"-", "+"} THEN Tail(raw) ELSE raw
    IN  /\ body # <<>>
        /\ \A i \in 1..Len(body) : body[i] \in Digits

RECURSIVE DigitsVal(_, _)
DigitsVal(ds, acc) ==
    IF ds = <<>> THEN acc
    ELSE DigitsVal(Tail(ds), 10 * acc + DigitVal(Head(ds)))

\* int(raw)
ParseInt(raw) ==
    IF raw # <<>> /\ Head(raw) = "-" THEN 0 - DigitsVal(Tail(raw), 0)
    ELSE IF raw # <<>> /\ Head(raw) = "+" THEN DigitsVal(Tail(raw), 0)
    ELSE DigitsVal(raw, 0)

Given(raw) == [given |-> TRUE,  raw |-> raw]
NoText     == [given |-> FALSE, raw |-> ""]
NoNumber   == [given |-> FALSE, raw |-> <<>>]

Argvs ==
    [ model      : {NoText, Given("m1"), Given("m2")},
      region     : {NoText, Given("us-east-1")},
      max_tokens : {NoNumber, Given(<<"8">>), Given(<<"1", "6">>),
                    Given(<<"-", "5">>), Given(<<"1", "x">>), Given(<<>>)},
      prompt     : {NoText, Given("hi"), Given("yo")} ]

Unparsed   == [state |-> "unparsed", model |-> "", region |-> "",
               max_tokens |-> 0, prompt |-> ""]
ParseError == [state |-> "error", model |-> "", region |-> "",
               max_tokens |-> 0, prompt |-> ""]

\* parse_args with --region not required
ParseArgsRegionOptional(a) ==
    IF a.max_tokens.given /\ ~IsIntLiteral(a.max_tokens.raw) THEN ParseError
    ELSE IF ~a.model.given \/ ~a.max_tokens.given \/ ~a.prompt.given
         THEN ParseError
    ELSE [state |-> "ok", model |-> a.model.raw, region |-> a.region.raw,
          max_tokens |-> ParseInt(a.max_tokens.raw), prompt |-> a.prompt.raw]

\* parse_args with --max-tokens declared without type=int
ParseArgsNoTypeCheck(a) ==
    IF \/ ~a.model.given \/ ~a.region.given
       \/ ~a.max_tokens.given \/ ~a.prompt.given
    THEN ParseError
    ELSE [state |-> "ok", model |-> a.model.raw, region |-> a.region.raw,
          max_tokens |-> ParseInt(a.max_tokens.raw), prompt |-> a.prompt.raw]

\* p.parse_args(): type conversion of each given option, then the
\* required-options check
ParseArgs(a) ==
    IF a.max_tokens.given /\ ~IsIntLiteral(a.max_tokens.raw) THEN ParseError
    ELSE IF \/ ~a.model.given \/ ~a.region.given
            \/ ~a.max_tokens.given \/ ~a.prompt.given
         THEN ParseError
    ELSE [state |-> "ok", model |-> a.model.raw, region |-> a.region.raw,
          max_tokens |-> ParseInt(a.max_tokens.raw), prompt |-> a.prompt.raw]

----------------------------------------------------------------------------
(* the SDK calls *)

Faults ==
    { [kind |-> k, at |-> 0] : k \in {"none", "client", "call"} }
    \cup { [kind |-> "stream", at |-> k] : k \in 0..MaxEvents }

\* boto3.client("bedrock-runtime", region_name=args.region)
BuildClient(ns) == [service |-> "bedrock-runtime", region_name |-> ns.region]

\* a request with modelId and the prompt text exchanged
BuildRequestSwapped(ns) ==
    [ modelId         |-> ns.prompt,
      messages        |-> << [role |-> "user",
                              content |-> << [text |-> ns.model] >>] >>,
      inferenceConfig |-> [maxTokens |-> ns.max_tokens] ]

\* the keyword arguments of client.converse_stream(...)
BuildRequest(ns) ==
    [ modelId         |-> ns.model,
      messages        |-> << [role |-> "user",
                              content |-> << [text |-> ns.prompt] >>] >>,
      inferenceConfig |-> [maxTokens |-> ns.max_tokens] ]

----------------------------------------------------------------------------
Init ==
    /\ pc = "import"
    /\ boto3 \in BOOLEAN
    /\ argv \in Argvs
    /\ stream \in Streams
    /\ fault \in Faults
    /\ fault.kind = "stream" => fault.at <= Len(stream)
    /\ args = Unparsed
    /\ clients = <<>>
    /\ requests = <<>>
    /\ consumed = 0
    /\ event = NoEvent
    /\ stdout = [buf |-> <<>>, fd |-> <<>>]
    /\ exitStatus = -1
    /\ bootstraps = 0

\* process exit: the interpreter flushes sys.stdout
Exit(status) ==
    /\ pc' = "done"
    /\ exitStatus' = status

\* an exception nobody catches: the except-hook, then exit status 1
Unhandled ==
    /\ Exit(1)
    /\ stdout' = Flush(stdout)

\* `import boto3` succeeds
ImportOk ==
    /\ pc = "import"
    /\ boto3
    /\ pc' = "parse"
    /\ UNCHANGED <<boto3, argv, stream, fault, args, clients, requests,
                   consumed, event, stdout, exitStatus, bootstraps>>

\* an import guard that reports the error and carries on
ImportFailNoExit ==
    /\ pc = "import"
    /\ ~boto3
    /\ stdout' = WriteLine(stdout, Dumps(ErrorRecord), TRUE)
    /\ pc' = "parse"
    /\ UNCHANGED <<boto3, argv, stream, fault, args, clients, requests,
                   consumed, event, exitStatus, bootstraps>>

\* except ImportError: print the error record, sys.exit(1)
ImportFail ==
    /\ pc = "import"
    /\ ~boto3
    /\ stdout' = Flush(WriteLine(stdout, Dumps(ErrorRecord), TRUE))
    /\ Exit(1)
    /\ UNCHANGED <<boto3, argv, stream, fault, args, clients, requests,
                   consumed, event, bootstraps>>

\* parse_args() returns the namespace
ParseOk ==
    /\ pc = "parse"
    /\ ParseArgs(argv).state = "ok"
    /\ args' = ParseArgs(argv)
    /\ pc' = "client"
    /\ UNCHANGED <<boto3, argv, stream, fault, clients, requests,
                   consumed, event, stdout, exitStatus, bootstraps>>

\* parse_args() calls p.error(): usage on stderr, exit status 2
ParseFail ==
    /\ pc = "parse"
    /\ ParseArgs(argv).state = "error"
    /\ args' = ParseArgs(argv)
    /\ stdout' = Flush(stdout)
    /\ Exit(2)
    /\ UNCHANGED <<boto3, argv, stream, fault, clients, requests,
                   consumed, event, bootstraps>>

\* boto3.client(...) returns
MakeClient ==
    /\ pc = "client"
    /\ fault.kind # "client"
    /\ clients' = Append(clients, BuildClient(args))
    /\ pc' = "request"
    /\ UNCHANGED <<boto3, argv, stream, fault, args, requests,
                   consumed, event, stdout, exitStatus, bootstraps>>

\* boto3.client(...) raises
MakeClientFail ==
    /\ pc = "client"
    /\ fault.kind = "client"
    /\ Unhandled
    /\ UNCHANGED <<boto3, argv, stream, fault, args, clients, requests,
                   consumed, event, bootstraps>>

\* client.converse_stream(...) returns the response
Request ==
    /\ pc = "request"
    /\ fault.kind # "call"
    /\ requests' = Append(requests, BuildRequest(args))
    /\ pc' = "iter"
    /\ UNCHANGED <<boto3, argv, stream, fault, args, clients,
                   consumed, event, stdout, exitStatus, bootstraps>>

\* client.converse_stream(...) raises
RequestFail ==
    /\ pc = "request"
    /\ fault.kind = "call"
    /\ requests' = Append(requests, BuildRequest(args))
    /\ Unhandled
    /\ UNCHANGED <<boto3, argv, stream, fault, args, clients,
                   consumed, event, bootstraps>>

StreamFails == fault.kind = "stream" /\ fault.at = consumed

\* the for statement takes the next event
NextEvent ==
    /\ pc = "iter"
    /\ ~StreamFails
    /\ consumed < Len(stream)
    /\ event' = stream[consumed + 1]
    /\ consumed' = consumed + 1
    /\ pc' = "print"
    /\ UNCHANGED <<boto3, argv, stream, fault, args, clients, requests,
                   stdout, exitStatus, bootstraps>>

\* the loop body
EmitEvent ==
    /\ pc = "print"
    /\ stdout' = WriteLine(stdout, Dumps(event), TRUE)
    /\ pc' = "iter"
    /\ UNCHANGED <<boto3, argv, stream, fault, args, clients, requests,
                   consumed, event, exitStatus, bootstraps>>

\* a stream end that reports failure
StreamEndStatusOne ==
    /\ pc = "iter"
    /\ ~StreamFails
    /\ consumed = Len(stream)
    /\ stdout' = Flush(stdout)
    /\ Exit(1)
    /\ UNCHANGED <<boto3, argv, stream, fault, args, clients, requests,
                   consumed, event, bootstraps>>

\* the stream is exhausted: main() returns, exit status 0
StreamEnd ==
    /\ pc = "iter"
    /\ ~StreamFails
    /\ consumed = Len(stream)
    /\ stdout' = Flush(stdout)
    /\ Exit(0)
    /\ UNCHANGED <<boto3, argv, stream, fault, args, clients, requests,
                   consumed, event, bootstraps>>

\* a stream failure answered by issuing the request again
StreamFailRetry ==
    /\ pc = "iter"
    /\ StreamFails
    /\ Len(requests) < 2
    /\ pc' = "request"
    /\ UNCHANGED <<boto3, argv, stream, fault, args, clients, requests,
                   consumed, event, stdout, exitStatus, bootstraps>>

\* a stream failure caught and reported as an error record
StreamFailReported ==
    /\ pc = "iter"
    /\ StreamFails
    /\ stdout' = Flush(WriteLine(stdout, Dumps(ErrorRecord), TRUE))
    /\ Exit(1)
    /\ UNCHANGED <<boto3, argv, stream, fault, args, clients, requests,
                   consumed, event, bootstraps>>

\* iterating resp["stream"] raises
StreamFail ==
    /\ pc = "iter"
    /\ StreamFails
    /\ Unhandled
    /\ UNCHANGED <<boto3, argv, stream, fault, args, clients, requests,
                   consumed, event, bootstraps>>

Next ==
    \/ ImportOk
    \/ ImportFail
    \/ ParseOk
    \/ ParseFail
    \/ MakeClient
    \/ MakeClientFail
    \/ Request
    \/ RequestFail
    \/ NextEvent
    \/ EmitEvent
    \/ StreamEnd
    \/ StreamFail

Spec == Init /\ [][Next]_vars

\* the process is the only thread and is always scheduled
FairSpec == Spec /\ WF_vars(Next)

----------------------------------------------------------------------------
(* Vocabulary of the properties *)

\* the lines of a text: the chunks between newline chunks
RECURSIVE SplitLines(_, _, _)
SplitLines(text, cur, acc) ==
    IF text = <<>> THEN (IF cur = <<>> THEN acc ELSE Append(acc, cur))
    ELSE IF Head(text) = "\n" THEN SplitLines(Tail(text), <<>>, Append(acc, cur))
    ELSE SplitLines(Tail(text), Append(cur, Head(text)), acc)

Lines(text) == SplitLines(text, <<>>, <<>>)

\* the lines for the first k events of the stream
EventLines(k) == [i \in 1..k |-> Dumps(stream[i])]

\* {"error": "boto3 not available"}
ErrorLine ==
    <<"{", "\"", "error", "\"", ": ", "\"", "boto3 not available", "\"", "}">>

AnyOmitted ==
    \/ ~argv.model.given \/ ~argv.region.given
    \/ ~argv.max_tokens.given \/ ~argv.prompt.given

\* --max-tokens values that are not integers
MaxTokensMalformed ==
    argv.max_tokens.given /\ argv.max_tokens.raw \in {<<"1", "x">>, <<>>}

\* the integer a well-formed --max-tokens value denotes
MaxTokensValue ==
    CASE argv.max_tokens.raw = <<"8">>      -> 8
      [] argv.max_tokens.raw = <<"1", "6">> -> 16
      [] argv.max_tokens.raw = <<"-", "5">> -> 0 - 5
      [] OTHER                              -> 0

ArgsValid == ~AnyOmitted /\ ~MaxTokensMalformed

PhaseRank(p) ==
    IF p = "done" THEN 2 ELSE IF p \in {"iter", "print"} THEN 1 ELSE 0

----------------------------------------------------------------------------
\* C1: when the library is present the delivered output is always the lines
\* of the first k events in stream order, k being the number of events
\* consumed or one less, each event on a line of its own; after a run whose
\* stream ended without failure it is the lines of all events.
C1_OneLinePerEvent ==
    boto3 =>
        /\ \E k \in {consumed - 1, consumed} :
               k >= 0 /\ Lines(stdout.fd) = EventLines(k)
        /\ (pc = "done" /\ ArgsValid /\ fault.kind = "none") =>
               /\ consumed = Len(stream)
               /\ stdout.buf = <<>>
               /\ Lines(stdout.fd) = EventLines(Len(stream))

C1_Witness ==
    /\ pc = "done" /\ exitStatus = 0
    /\ Len(stream) >= 2
    /\ stream[1] # stream[2]
    /\ stream[2].key = "contentBlockDelta"
    /\ Len(Lines(stdout.fd)) = Len(stream)

\* C2: without boto3, whatever the command line, nothing is parsed, no
\* client is built, no request is issued, no event is consumed, and the
\* run terminates, with exit status 1 and exactly the error record on stdout.
C2_Safe ==
    ~boto3 =>
        /\ pc \in {"import", "done"}
        /\ args = Unparsed
        /\ clients = <<>> /\ requests = <<>> /\ consumed = 0
        /\ pc = "done" =>
               /\ exitStatus = 1
               /\ stdout.buf = <<>>
               /\ Lines(stdout.fd) = <<ErrorLine>>

\* C2: the import guard's outcome holds throughout, and a run without boto3
\* terminates with exit status 1.
C2_ImportGuard ==
    /\ []C2_Safe
    /\ (~boto3 ~> (pc = "done" /\ exitStatus = 1))

C2_Witness ==
    /\ ~boto3 /\ pc = "done" /\ AnyOmitted /\ MaxTokensMalformed
    /\ Lines(stdout.fd) = <<ErrorLine>>

\* C3: with boto3, valid arguments and a stream that does not fail, the run
\* terminates, and when it has terminated every event has been consumed, its
\* line delivered, and the exit status is 0.
C3_Premise == boto3 /\ ArgsValid /\ fault.kind = "none"

\* C3: a clean run ends complete with status 0, and it does end.
C3_CleanExit ==
    /\ [](C3_Premise /\ pc = "done" =>
              /\ exitStatus = 0
              /\ consumed = Len(stream)
              /\ Len(Lines(stdout.fd)) = Len(stream))
    /\ (C3_Premise ~> (pc = "done" /\ exitStatus = 0))

C3_Witness ==
    /\ C3_Premise /\ pc = "done" /\ exitStatus = 0
    /\ Len(stream) >= 1 /\ Len(Lines(stdout.fd)) = Len(stream)

C6_Bootstrap ==
    (~boto3 /\ pc = "done") => bootstraps > 0

\* C7: every client is built for --region and every request carries
\* --model, the integer value of --max-tokens and one user message whose
\* content is one text block equal to --prompt.
C7_RequestFromArguments ==
    /\ \A i \in 1..Len(clients) : clients[i].region_name = argv.region.raw
    /\ \A i \in 1..Len(requests) :
           requests[i] =
               [ modelId         |-> argv.model.raw,
                 messages        |-> << [role |-> "user",
                                         content |-> << [text |-> argv.prompt.raw] >>] >>,
                 inferenceConfig |-> [maxTokens |-> MaxTokensValue] ]

C7_Witness ==
    /\ Len(requests) = 1 /\ Len(clients) = 1
    /\ argv.model.raw = "m2" /\ argv.prompt.raw = "yo"
    /\ argv.max_tokens.raw = <<"1", "6">>
    /\ requests[1].inferenceConfig.maxTokens = 16

\* C8: at most one client and one request per run; the phase never moves
\* backwards; a request is only issued from the Uninitialized phase; nothing
\* changes once the run is Terminated.
C8_Phases ==
    /\ [](Len(clients) <= 1 /\ Len(requests) <= 1)
    /\ [][ /\ PhaseRank(pc') >= PhaseRank(pc)
           /\ Len(requests') > Len(requests) => PhaseRank(pc) = 0
           /\ Len(clients') > Len(clients) => PhaseRank(pc) = 0
           /\ pc = "done" => UNCHANGED <<pc, stdout, requests, clients>> ]_vars

C8_Witness ==
    /\ pc = "done" /\ fault.kind = "stream" /\ fault.at >= 1
    /\ Len(clients) = 1 /\ Len(requests) = 1

\* C9: when the request raises, or the stream raises after k events, the
\* run terminates with a non-zero exit status, exactly the k event lines on
\* stdout, no error record among them, and one request in all.
C9_FailedAfter == IF fault.kind = "call" THEN 0 ELSE fault.at

C9_Premise == boto3 /\ ArgsValid /\ fault.kind \in {"call", "stream"}

C9_Safe ==
    (pc = "done" /\ C9_Premise) =>
        /\ exitStatus # 0
        /\ consumed = C9_FailedAfter
        /\ stdout.buf = <<>>
        /\ Lines(stdout.fd) = EventLines(C9_FailedAfter)
        /\ \A i \in 1..Len(Lines(stdout.fd)) : Lines(stdout.fd)[i] # ErrorLine
        /\ Len(requests) = 1

\* C9: the outcome of an uncaught failure holds of every finished run, and
\* a failing run terminates with non-zero status.
C9_UnhandledFailure ==
    /\ []C9_Safe
    /\ (C9_Premise ~> (pc = "done" /\ exitStatus # 0))

C9_Witness ==
    /\ pc = "done" /\ boto3 /\ ArgsValid
    /\ fault.kind = "stream" /\ fault.at = 1 /\ Len(stream) >= 2
    /\ Len(Lines(stdout.fd)) = 1 /\ exitStatus = 1

\* C10: events consumed never exceed lines delivered by more than one, and
\* whenever the loop is about to take an event the lines of all events
\* consumed so far are already delivered, none held in the buffer.
C10_NoBuffering ==
    boto3 =>
        /\ consumed <= Len(Lines(stdout.fd)) + 1
        /\ pc = "iter" =>
               /\ stdout.buf = <<>>
               /\ Lines(stdout.fd) = EventLines(consumed)

C10_Witness ==
    /\ pc = "print" /\ consumed = 2
    /\ Len(Lines(stdout.fd)) = 1

====
